---- MODULE Spec2Model ----
(***************************************************************************)
(* Model of src/app.py: the indicator computation of fetch_yf_history, the *)
(* rule-based classifier get_strategy_suggestion, and the dashboard's      *)
(* session state (menu, current_plot).                                     *)
(*                                                                         *)
(* Numbers.  Closing prices are positive integers (ticks).  pandas works   *)
(* in binary64; the model keeps the values exact where the code's          *)
(* comparisons depend on them:                                             *)
(*   - a rolling mean is the rational num/den;                             *)
(*   - a rolling standard deviation is kept as its square num/den;         *)
(*   - the band  Lower = SMA20 - 2*std20  is kept as the pair (mean, var); *)
(*   - RSI = 100 - 100/(1 + gain/(loss + 1e-9)), which for gain = G/w and  *)
(*     loss = L/w equals 100*G / (G + L + w*1e-9), is kept as              *)
(*     num / (den + deneps/EpsInv);                                        *)
(*   - the exponential averages (MACD family) have denominators 13^i,      *)
(*     27^i, 5^i and are kept in fixed point, FxScale units per tick,      *)
(*     rounded down at each step.                                          *)
(* NaN is a value with def = FALSE; every comparison with NaN is FALSE.    *)
(***************************************************************************)
EXTENDS Integers, Sequences, FiniteSets, TLC

\* ---------------------------------------------------------------- constants
MinBars == 26
SmaShortWin == 20
SmaLongWin == 60
BandWidth == 2
RsiWin == 14
EpsInv == 1000000000
FastSpan == 12
SlowSpan == 26
SignalSpan == 9
PanicRsi == 25
OversoldRsi == 35
OverheatRsi == 75
\* 1.02 = BuyZoneNum / BuyZoneDen
BuyZoneNum == 51
BuyZoneDen == 50

\* ------------------------------------------------------------------- bounds
MaxBars == 61
MaxPrice == 62
StartPrice == 30
FxScale == 1000000
MaxFrameBars == 27

\* ------------------------------------------------------------------- values
F(x) == [def |-> TRUE, v |-> x]
NaN == [def |-> FALSE, v |-> 0]
Rat(n, d) == [def |-> TRUE, num |-> n, den |-> d]
NaNRat == [def |-> FALSE, num |-> 0, den |-> 1]
NaNBand == [def |-> FALSE, mean |-> NaNRat, var |-> NaNRat]
NaNRsi == [def |-> FALSE, num |-> 0, den |-> 1, deneps |-> 0]

\* a/b < c/d for a, c >= 0 and b, d > 0, by the Euclidean algorithm (no
\* product is formed, so nothing overflows)
RECURSIVE FracLT(_, _, _, _)
FracLT(a, b, c, d) ==
    LET qa == a \div b
        qc == c \div d
        ra == a % b
        rc == c % d
    IN  IF qa # qc THEN qa < qc
        ELSE IF rc = 0 THEN FALSE
        ELSE IF ra = 0 THEN TRUE
        ELSE FracLT(d, rc, b, ra)

\* x < y and x > y on rationals; FALSE when either is NaN
RatLT(x, y) == x.def /\ y.def /\ x.num * y.den < y.num * x.den
\* price c against a rational
PriceGT(c, y) == y.def /\ c * y.den > y.num

\* rsi < t and rsi > t for an integer threshold t:
\*   num/(den + deneps/EpsInv) < t  <=>  (num - t*den) * EpsInv < t*deneps
RsiLT(rsi, t) ==
    rsi.def /\ (rsi.num - t * rsi.den) <= ((t * rsi.deneps - 1) \div EpsInv)
RsiGT(rsi, t) ==
    rsi.def /\ (rsi.num - t * rsi.den) >= -((-(t * rsi.deneps + 1)) \div EpsInv)

\* fixed-point comparisons; FALSE when either is NaN
FxLT(x, y) == x.def /\ y.def /\ x.v < y.v
FxGT(x, y) == x.def /\ y.def /\ x.v > y.v

\* ------------------------------------------------------- pandas primitives
RECURSIVE SumV(_, _, _)
SumV(xs, lo, hi) == IF lo > hi THEN 0 ELSE xs[hi].v + SumV(xs, lo, hi - 1)

RECURSIVE SumSq(_, _, _)
SumSq(xs, lo, hi) ==
    IF lo > hi THEN 0 ELSE xs[hi].v * xs[hi].v + SumSq(xs, lo, hi - 1)

\* Series.rolling(w): the window of row i is the rows lo..hi = i-w+1..i
WindowAhead(i, w) == [lo |-> i - w + 2, hi |-> i + 1]
WindowShort(i, w) == [lo |-> i - w + 2, hi |-> i]
Window(i, w) == [lo |-> i - w + 1, hi |-> i]

\* min_periods defaults to w: the statistic is NaN unless the window lies in
\* the column and holds w values that are not NaN
WindowFull(xs, i, w) ==
    LET win == Window(i, w)
    IN  /\ win.lo >= 1
        /\ win.hi <= Len(xs)
        /\ \A j \in win.lo..win.hi : xs[j].def

\* Series.rolling(w).mean()
rolling_mean(xs, w) ==
    [i \in 1..Len(xs) |->
        IF WindowFull(xs, i, w)
        THEN Rat(SumV(xs, Window(i, w).lo, Window(i, w).hi), w)
        ELSE NaNRat]

\* Series.rolling(w).std() (ddof = 1), kept as the variance
\*   (w * sum x^2 - (sum x)^2) / (w * (w - 1))
rolling_std(xs, w) ==
    [i \in 1..Len(xs) |->
        IF WindowFull(xs, i, w)
        THEN LET s == SumV(xs, Window(i, w).lo, Window(i, w).hi)
                 q == SumSq(xs, Window(i, w).lo, Window(i, w).hi)
             IN  Rat(w * q - s * s, w * (w - 1))
        ELSE NaNRat]

\* Series.diff(): the first row has no predecessor and is NaN
diffZeroFirst(xs) ==
    [i \in 1..Len(xs) |->
        IF i > 1 /\ xs[i].def /\ xs[i - 1].def
        THEN F(xs[i].v - xs[i - 1].v)
        ELSE F(0)]
diff(xs) ==
    [i \in 1..Len(xs) |->
        IF i > 1 /\ xs[i].def /\ xs[i - 1].def
        THEN F(xs[i].v - xs[i - 1].v)
        ELSE NaN]

\* Series.clip(lower=0) and Series.clip(upper=0); NaN stays NaN
clip_lower(xs) ==
    [i \in 1..Len(xs) |->
        IF xs[i].def /\ xs[i].v < 0 THEN F(0) ELSE xs[i]]
clip_none(xs) == xs
clip_upper(xs) ==
    [i \in 1..Len(xs) |->
        IF xs[i].def /\ xs[i].v > 0 THEN F(0) ELSE xs[i]]

\* Series.ewm(span, adjust=False).mean() on a column without NaN:
\*   y[1] = x[1],  y[i] = (1 - a) * y[i-1] + a * x[i],  a = 2 / (span + 1)
RECURSIVE ewm_mean(_, _, _)
ewm_mean(xs, span, acc) ==
    IF Len(acc) = Len(xs) THEN acc
    ELSE LET i == Len(acc) + 1
             y == IF i = 1 THEN xs[1].v
                  ELSE ((span - 1) * acc[i - 1].v + 2 * xs[i].v) \div (span + 1)
         IN  ewm_mean(xs, span, Append(acc, F(y)))

\* column - column
Minus(xs, ys) == [i \in 1..Len(xs) |-> F(xs[i].v - ys[i].v)]

\* ------------------------------------------------------ fetch_yf_history
\* 100 - 100 / (1 + gain / (loss + 1e-9))
RsiValueNoComplement(gain, loss) ==
    IF gain.def /\ loss.def
    THEN [def |-> TRUE, num |-> 100 * loss.num,
          den |-> gain.num + loss.num, deneps |-> gain.den]
    ELSE [def |-> FALSE, num |-> 0, den |-> 1, deneps |-> 0]
RsiValue(gain, loss) ==
    IF gain.def /\ loss.def
    THEN [def |-> TRUE, num |-> 100 * gain.num,
          den |-> gain.num + loss.num, deneps |-> gain.den]
    ELSE NaNRsi

\* SMA20 - 2 * std20
BandValue(sma, std) ==
    IF sma.def /\ std.def
    THEN [def |-> TRUE, mean |-> sma, var |-> std]
    ELSE NaNBand

None == [isNone |-> TRUE, rows |-> << >>]
Frame(rows) == [isNone |-> FALSE, rows |-> rows]

\* the enriched frame of a price history (the try block succeeding)
fetch_yf_history(closes) ==
    LET n == Len(closes)
        Close == [i \in 1..n |-> F(closes[i])]
        CloseFx == [i \in 1..n |-> F(closes[i] * FxScale)]
        SMA20 == rolling_mean(Close, SmaShortWin)
        SMA60 == rolling_mean(Close, SmaLongWin)
        std20 == rolling_std(Close, SmaShortWin)
        delta == diff(Close)
        gain == rolling_mean(clip_lower(delta), RsiWin)
        negloss == rolling_mean(clip_upper(delta), RsiWin)
        loss == [i \in 1..n |-> [negloss[i] EXCEPT !.num = -negloss[i].num]]
        exp1 == ewm_mean(CloseFx, FastSpan, << >>)
        exp2 == ewm_mean(CloseFx, SlowSpan, << >>)
        MACD == Minus(exp1, exp2)
        Signal == ewm_mean(MACD, SignalSpan, << >>)
        Hist == Minus(MACD, Signal)
    IN  Frame([i \in 1..n |->
            [Close |-> closes[i],
             SMA20 |-> SMA20[i],
             SMA60 |-> SMA60[i],
             Lower |-> BandValue(SMA20[i], std20[i]),
             RSI |-> RsiValue(gain[i], loss[i]),
             MACD |-> MACD[i],
             Signal |-> Signal[i],
             Hist |-> Hist[i]]])

\* ------------------------------------------------ get_strategy_suggestion
\* curr_price < bb_lower * 1.02, with bb_lower = mean - 2 * sqrt(var):
\*   2*sqrt(var) < mean - c/1.02 = A/B,  A = Num*mean.num - Den*c*mean.den,
\*   B = Num*mean.den   <=>   A > 0  /\  4*var < A^2/B^2
is_buy_zone(curr_price, bb_lower) ==
    /\ bb_lower.def
    /\ LET A == BuyZoneNum * bb_lower.mean.num
                - BuyZoneDen * curr_price * bb_lower.mean.den
           B == BuyZoneNum * bb_lower.mean.den
       IN  /\ A > 0
           /\ FracLT(BandWidth * BandWidth * bb_lower.var.num,
                     bb_lower.var.den, A * A, B * B)

is_panic(rsi) == RsiLT(rsi, PanicRsi)
is_oversold(rsi) == RsiLT(rsi, OversoldRsi)
is_overheated(rsi) == RsiGT(rsi, OverheatRsi)
macd_turn_up(macd_hist, prev_macd_hist) ==
    FxLT(macd_hist, F(0)) /\ FxGT(macd_hist, prev_macd_hist)
is_bullish_trend_not_below(curr_price, sma20, sma60) ==
    PriceGT(curr_price, sma20) /\ ~RatLT(sma20, sma60)
is_bullish_trend(curr_price, sma20, sma60) ==
    PriceGT(curr_price, sma20) /\ RatLT(sma60, sma20)

\* df is None or df.empty or len(df) < 26
too_short_off_by_one(df) ==
    df.isNone \/ Len(df.rows) = 0 \/ Len(df.rows) < MinBars - 1
too_short(df) ==
    df.isNone \/ Len(df.rows) = 0 \/ Len(df.rows) < MinBars

\* the label and the colour of the returned tuple
get_strategy_suggestion_golden_first(df) ==
    IF too_short(df)
    THEN <<"insufficient_data", "#9e9e9e">>
    ELSE LET last_row == df.rows[Len(df.rows)]
             prev_row == df.rows[Len(df.rows) - 1]
         IN  IF /\ is_oversold(last_row.RSI)
                /\ is_buy_zone(last_row.Close, last_row.Lower)
                /\ macd_turn_up(last_row.Hist, prev_row.Hist)
             THEN <<"golden_buy", "#2e7d32">>
             ELSE IF is_panic(last_row.RSI)
             THEN <<"extreme_panic", "#d32f2f">>
             ELSE IF is_overheated(last_row.RSI)
             THEN <<"overheated", "#ef6c00">>
             ELSE IF /\ is_bullish_trend(last_row.Close, last_row.SMA20,
                                         last_row.SMA60)
                     /\ FxGT(last_row.Hist, F(0))
             THEN <<"bullish_continuation", "#1976d2">>
             ELSE <<"consolidating", "#757575">>
get_strategy_suggestion(df) ==
    IF too_short(df)
    THEN <<"insufficient_data", "#9e9e9e">>
    ELSE LET last_row == df.rows[Len(df.rows)]
             prev_row == df.rows[Len(df.rows) - 1]
             curr_price == last_row.Close
             rsi == last_row.RSI
             macd_hist == last_row.Hist
             prev_macd_hist == prev_row.Hist
             bb_lower == last_row.Lower
             sma20 == last_row.SMA20
             sma60 == last_row.SMA60
         IN  IF is_panic(rsi)
             THEN <<"extreme_panic", "#d32f2f">>
             ELSE IF /\ is_oversold(rsi)
                     /\ is_buy_zone(curr_price, bb_lower)
                     /\ macd_turn_up(macd_hist, prev_macd_hist)
             THEN <<"golden_buy", "#2e7d32">>
             ELSE IF is_overheated(rsi)
             THEN <<"overheated", "#ef6c00">>
             ELSE IF /\ is_bullish_trend(curr_price, sma20, sma60)
                     /\ FxGT(macd_hist, F(0))
             THEN <<"bullish_continuation", "#1976d2">>
             ELSE <<"consolidating", "#757575">>

\* ---------------------------------------------------------- the dashboard
\* MARKET_MAP's codes, the portfolio sheet's symbols, and the history the
\* provider returns for each code when it answers
MARKET_MAP == {"2330", "2317"}
portfolio == {"2330"}
Name(s) == IF s = "2330" THEN "TSMC" ELSE "HonHai"
History(s) ==
    IF s = "2330" THEN [i \in 1..30 |-> 60 - i] ELSE [i \in 1..5 |-> 40 + i]
Menus == {"portfolio", "screening", "diagnosis", "management"}
NoSelection == "none"

NoPlot == [present |-> FALSE, df |-> None, name |-> ""]
NoCard == [shown |-> FALSE, failed |-> FALSE, label |-> ""]
NoChart == [shown |-> FALSE, ofNone |-> FALSE, label |-> ""]
Miss == [hit |-> FALSE, df |-> None]
NoScan == [present |-> FALSE, codes |-> {}]
NoEvent == [kind |-> "none", sym |-> "", failed |-> FALSE]

\* @st.cache_data(ttl=600) around fetch_yf_history: a hit returns the cached
\* value (a cached None included); a miss runs the body, which returns the
\* enriched frame, or None when anything raises
CachedFetch(c, s, ok) ==
    IF c[s].hit THEN c[s].df
    ELSE IF ok THEN fetch_yf_history(History(s)) ELSE None

\* the cache after one run fetched the codes of S
CacheAfter(c, S, oks) ==
    [s \in MARKET_MAP |->
        IF s \in S THEN [hit |-> TRUE, df |-> CachedFetch(c, s, oks[s])]
        ELSE c[s]]

\* the codes whose cards a run of menu m draws
CardCodes(m, scan) ==
    IF m = "portfolio" THEN portfolio \cap MARKET_MAP
    ELSE IF m = "screening" /\ scan.present THEN scan.codes
    ELSE {}

\* the cards: each carries the label of get_strategy_suggestion(h_df)
CardsOf(c, S) ==
    [s \in MARKET_MAP |->
        IF s \in S
        THEN [shown |-> TRUE, failed |-> c[s].df.isNone,
              label |-> get_strategy_suggestion(c[s].df)[1]]
        ELSE NoCard]

\* if h_df is not None: st.session_state.current_plot = (h_df, name)
SetPlotUnguarded(plot, h_df, name) ==
    [present |-> TRUE, df |-> h_df, name |-> name]
SetPlot(plot, h_df, name) ==
    IF ~h_df.isNone
    THEN [present |-> TRUE, df |-> h_df, name |-> name]
    ELSE plot

\* the bottom chart: drawn when current_plot is in the session state
ChartOf(plot) ==
    IF plot.present
    THEN [shown |-> TRUE, ofNone |-> plot.df.isNone,
          label |-> get_strategy_suggestion(plot.df)[1]]
    ELSE NoChart

\* -------------------------------------------------------------- the market
\* The price history the provider returns grows by one bar per session.  The
\* bars follow a trend (a repeating pattern of steps) which may turn once.
Trends == {"flat", "drop", "rise", "rally"}
Pattern(t) ==
    CASE t = "flat" -> <<0>>
      [] t = "drop" -> <<-1>>
      [] t = "rise" -> <<1>>
      [] t = "rally" -> <<2, -1>>
Turns == {<<"drop", "rise">>}

\* ---------------------------------------------------- the classifier inputs
\* rows an enriched frame may end with: rsi 0, just below 25, 33.3, just
\* below 35, 36.8, 50, just below 75, 80, just below 100 and NaN
GainLoss ==
    {<<0, 0>>, <<1, 3>>, <<1, 2>>, <<7, 13>>, <<7, 12>>, <<1, 1>>, <<3, 1>>,
     <<4, 1>>, <<5, 0>>}
RsiInputs ==
    {NaNRsi} \cup {RsiValue(Rat(gl[1], RsiWin), Rat(gl[2], RsiWin)) : gl \in GainLoss}
CloseInputs == {20, 30}
Sma20Inputs == {NaNRat, Rat(500, 20), Rat(700, 20)}
VarInputs == {Rat(0, 380), Rat(6080, 380)}
Sma60Inputs == {NaNRat, Rat(1200, 60), Rat(2400, 60)}
HistInputs == {NaN, F(-2), F(-1), F(0), F(1)}
PrevHistInputs == {F(-2), F(0)}

InputRow(c, rsi, sma20, var, sma60, hist) ==
    [Close |-> c, SMA20 |-> sma20, SMA60 |-> sma60,
     Lower |-> BandValue(sma20, var), RSI |-> rsi,
     MACD |-> hist, Signal |-> F(0), Hist |-> hist]

\* a frame of n rows ending with the rows prev, last
InputFrame(n, prev, last) ==
    Frame([i \in 1..n |-> IF i = n THEN last ELSE prev])

VARIABLES close, trend, phase, df, label,
          menu, current_plot, scan_results_df, cache, cards, chart, event

marketVars == <<close, trend, phase>>
uiVars == <<menu, current_plot, scan_results_df, cache, cards, chart, event>>
vars == <<close, trend, phase, df, label,
          menu, current_plot, scan_results_df, cache, cards, chart, event>>

\* the session state of a first visit, before the first run
InitSession ==
    /\ menu = "portfolio"
    /\ current_plot = NoPlot
    /\ scan_results_df = NoScan
    /\ cache = [s \in MARKET_MAP |-> Miss]
    /\ cards = [s \in MARKET_MAP |-> NoCard]
    /\ chart = NoChart
    /\ event = NoEvent

InitMarket ==
    /\ close = << >>
    /\ trend = "flat"
    /\ phase = 1

\* ----------------------------------------------- Spec: history to label
Init ==
    /\ InitMarket
    /\ df = fetch_yf_history(close)
    /\ label = get_strategy_suggestion(df)[1]
    /\ InitSession

\* a session closes, the dashboard reruns and the fetch succeeds
NewSession ==
    /\ Len(close) < MaxBars
    /\ \E t \in Trends :
        /\ close = << >> \/ t = trend \/ <<trend, t>> \in Turns
        /\ LET ph == IF close # << >> /\ t = trend THEN phase ELSE 1
               c == IF close = << >> THEN StartPrice
                    ELSE close[Len(close)] + Pattern(t)[ph]
           IN  /\ c \in 1..MaxPrice
               /\ close' = Append(close, c)
               /\ trend' = t
               /\ phase' = IF close = << >> THEN 1
                           ELSE (ph % Len(Pattern(t))) + 1
    /\ df' = fetch_yf_history(close')
    /\ label' = get_strategy_suggestion(df')[1]
    /\ UNCHANGED uiVars

\* the dashboard reruns and the provider raises: fetch_yf_history returns None
FetchRaises ==
    /\ ~df.isNone
    /\ df' = None
    /\ label' = get_strategy_suggestion(df')[1]
    /\ UNCHANGED marketVars
    /\ UNCHANGED uiVars

\* the dashboard reruns after the cached None expired and the fetch succeeds
Refetch ==
    /\ df.isNone
    /\ df' = fetch_yf_history(close)
    /\ label' = get_strategy_suggestion(df')[1]
    /\ UNCHANGED marketVars
    /\ UNCHANGED uiVars

Next == NewSession \/ FetchRaises \/ Refetch

Spec == Init /\ [][Next]_vars

\* ------------------------------------- SpecClassify: enriched frame to label
InitClassify ==
    /\ InitMarket
    /\ InitSession
    /\ label = "unclassified"
    /\ \E n \in (MinBars - 1)..MaxFrameBars :
       \E c \in CloseInputs, rsi \in RsiInputs, sma20 \in Sma20Inputs,
          var \in VarInputs, sma60 \in Sma60Inputs, hist \in HistInputs,
          prev_hist \in PrevHistInputs :
            df = InputFrame(n,
                    InputRow(c, rsi, sma20, var, sma60, prev_hist),
                    InputRow(c, rsi, sma20, var, sma60, hist))

Classify ==
    /\ label = "unclassified"
    /\ label' = get_strategy_suggestion(df)[1]
    /\ UNCHANGED <<df, marketVars, uiVars>>

NextClassify == Classify

SpecClassify == InitClassify /\ [][NextClassify]_vars

\* --------------------------------------------- SpecUI: the session state
\* one run of the script: the cards of menu m are drawn from the cache after
\* the run's fetches, the plot is set by the clicked button, the chart drawn
Run(m, scan, fetched, oks, plot, ev) ==
    /\ menu' = m
    /\ scan_results_df' = scan
    /\ cache' = CacheAfter(cache, fetched, oks)
    /\ cards' = CardsOf(cache', CardCodes(m, scan))
    /\ current_plot' = plot
    /\ chart' = ChartOf(plot)
    /\ event' = ev
    /\ UNCHANGED <<df, label, marketVars>>

\* a sidebar button
SelectMenu ==
    \E m \in Menus, oks \in [MARKET_MAP -> BOOLEAN] :
        Run(m, scan_results_df, CardCodes(m, scan_results_df), oks,
            current_plot, [kind |-> "menu", sym |-> "", failed |-> FALSE])

\* the portfolio card's button of code s
ViewAnalysis ==
    /\ menu = "portfolio"
    /\ \E s \in MARKET_MAP, oks \in [MARKET_MAP -> BOOLEAN] :
        /\ cards[s].shown
        /\ LET codes == CardCodes(menu, scan_results_df)
               h_df == CacheAfter(cache, codes, oks)[s].df
           IN  Run(menu, scan_results_df, codes, oks,
                   SetPlot(current_plot, h_df, Name(s)),
                   [kind |-> "view", sym |-> s, failed |-> h_df.isNone])

\* the scan button: the codes within the PE and PB limits entered
StartScan ==
    /\ menu = "screening"
    /\ \E res \in SUBSET MARKET_MAP, oks \in [MARKET_MAP -> BOOLEAN] :
        LET scan == [present |-> res # {}, codes |-> res]
        IN  Run(menu, scan, CardCodes(menu, scan), oks, current_plot,
                [kind |-> "scan", sym |-> "", failed |-> FALSE])

\* the screening card's button of code s
Diagnose ==
    /\ menu = "screening"
    /\ \E s \in MARKET_MAP, oks \in [MARKET_MAP -> BOOLEAN] :
        /\ cards[s].shown
        /\ LET codes == CardCodes(menu, scan_results_df)
               h_df == CacheAfter(cache, codes, oks)[s].df
           IN  Run(menu, scan_results_df, codes, oks,
                   SetPlot(current_plot, h_df, Name(s)),
                   [kind |-> "diagnose", sym |-> s, failed |-> h_df.isNone])

\* the diagnosis button with the selection sel
RunDiagnosis ==
    /\ menu = "diagnosis"
    /\ \E sel \in MARKET_MAP \cup {NoSelection},
          oks \in [MARKET_MAP -> BOOLEAN] :
        IF sel # NoSelection
        THEN LET h_df == CacheAfter(cache, {sel}, oks)[sel].df
             IN  Run(menu, scan_results_df, {sel}, oks,
                     SetPlot(current_plot, h_df, Name(sel)),
                     [kind |-> "run_diagnosis", sym |-> sel,
                      failed |-> h_df.isNone])
        ELSE Run(menu, scan_results_df, {}, oks, current_plot,
                 [kind |-> "run_diagnosis", sym |-> "", failed |-> FALSE])

\* the save button: st.cache_data.clear(); st.rerun()
SaveChanges ==
    /\ menu = "management"
    /\ menu' = menu
    /\ scan_results_df' = scan_results_df
    /\ cache' = [s \in MARKET_MAP |-> Miss]
    /\ cards' = [s \in MARKET_MAP |-> NoCard]
    /\ current_plot' = current_plot
    /\ chart' = ChartOf(current_plot)
    /\ event' = [kind |-> "save", sym |-> "", failed |-> FALSE]
    /\ UNCHANGED <<df, label, marketVars>>

\* a cached result is older than its ttl
CacheExpires ==
    /\ \E s \in MARKET_MAP :
        /\ cache[s].hit
        /\ cache' = [cache EXCEPT ![s] = Miss]
    /\ UNCHANGED <<menu, current_plot, scan_results_df, cards, chart, event>>
    /\ UNCHANGED <<df, label, marketVars>>

InitUI ==
    /\ InitMarket
    /\ df = None
    /\ label = "insufficient_data"
    /\ InitSession

NextUI ==
    \/ SelectMenu
    \/ ViewAnalysis
    \/ StartScan
    \/ Diagnose
    \/ RunDiagnosis
    \/ SaveChanges
    \/ CacheExpires

SpecUI == InitUI /\ [][NextUI]_vars

\* ------------------------------------------------------------ the claims
LastRow == df.rows[Len(df.rows)]
Fetched == ~df.isNone

\* the ordered decision table of the classifier, on the last row and the
\* previous row's histogram
RuleHolds(k, last, prev) ==
    CASE k = 1 -> RsiLT(last.RSI, 25)
      [] k = 2 -> /\ RsiLT(last.RSI, 35)
                  /\ is_buy_zone(last.Close, last.Lower)
                  /\ FxLT(last.Hist, F(0))
                  /\ FxGT(last.Hist, prev.Hist)
      [] k = 3 -> RsiGT(last.RSI, 75)
      [] k = 4 -> /\ PriceGT(last.Close, last.SMA20)
                  /\ RatLT(last.SMA60, last.SMA20)
                  /\ FxGT(last.Hist, F(0))
      [] OTHER -> TRUE
TableLabels ==
    <<"extreme_panic", "golden_buy", "overheated", "bullish_continuation",
      "consolidating">>
FirstRule(last, prev) ==
    CHOOSE k \in 1..5 :
        RuleHolds(k, last, prev) /\ \A j \in 1..(k - 1) : ~RuleHolds(j, last, prev)

\* C1: a frame of at least 26 rows gets the label of the first row of the
\* decision table whose condition holds; the earliest-listed rule wins
C1_DecisionTable ==
    (label # "unclassified" /\ Len(df.rows) >= 26) =>
        label = TableLabels[FirstRule(df.rows[Len(df.rows)],
                                      df.rows[Len(df.rows) - 1])]

\* the conditions of rules 1 and 2 both hold and rule 1 gave the label
C1_Witness ==
    /\ Len(df.rows) >= 26
    /\ RuleHolds(1, df.rows[Len(df.rows)], df.rows[Len(df.rows) - 1])
    /\ RuleHolds(2, df.rows[Len(df.rows)], df.rows[Len(df.rows) - 1])
    /\ label = "extreme_panic"

\* C2: a frame of fewer than 26 rows, an empty frame or None is labelled
\* "insufficient data", whatever its prices and indicators are
C2_InsufficientData ==
    (df.isNone \/ Len(df.rows) < 26) => label = "insufficient_data"

\* the frame has 25 rows and its last row meets the first rule (rsi < 25)
C2_Witness ==
    /\ Fetched
    /\ Len(df.rows) = 25
    /\ RsiLT(LastRow.RSI, 25)
    /\ label = "insufficient_data"

IsFlat == \A i \in 1..Len(close) : close[i] = close[1]

\* C3: a 30-bar series of constant close has a defined rsi at bar 14 and is
\* labelled "consolidating"
C3_FlatIsConsolidating ==
    (Fetched /\ Len(close) = 30 /\ IsFlat)
        => (df.rows[15].RSI.def /\ label = "consolidating")

\* the closes at t-20..t fall strictly: 20 falling sessions ending at bar t
DropsEndingAt(t) ==
    /\ t >= 21
    /\ \A j \in (t - 19)..t : close[j] < close[j - 1]
RisesAfter(t, k) ==
    /\ t + k <= Len(close)
    /\ \A j \in (t + 1)..(t + k) : close[j] > close[j - 1]
LabelOfPrefix(t) ==
    get_strategy_suggestion(fetch_yf_history(SubSeq(close, 1, t)))[1]

\* C4: when 20 strictly falling sessions end at bar t and at least 26 bars
\* are available there, rsi at t is below 25 and the series up to t is
\* labelled "extreme panic"
C4_PanicAtTrough ==
    \A t \in 26..Len(close) :
        DropsEndingAt(t) =>
            /\ RsiLT(fetch_yf_history(close).rows[t].RSI, 25)
            /\ LabelOfPrefix(t) = "extreme_panic"
            /\ (t = Len(close) /\ Fetched) => label = "extreme_panic"

\* 20 falling sessions, the trough with at least 26 bars, a 3-session rebound
C4_Witness ==
    \E t \in 26..Len(close) :
        /\ DropsEndingAt(t)
        /\ RisesAfter(t, 3)
        /\ Len(close) = t + 3
        /\ Fetched
        /\ RsiLT(df.rows[t].RSI, 25)
        /\ LabelOfPrefix(t) = "extreme_panic"

\* C5: a bar appended to the history changes no row computed before it, the
\* undefined fields included, and the frame is as long as the history
C5_Causality ==
    [][(~df.isNone /\ ~df'.isNone) =>
          /\ Len(df'.rows) = Len(close')
          /\ \A i \in 1..Len(df.rows) :
                i <= Len(df'.rows) /\ df'.rows[i] = df.rows[i]]_vars

\* the frame covers 60 bars or more: every field is defined at row 60
C5_Witness ==
    /\ Fetched
    /\ Len(df.rows) = Len(close)
    /\ Len(close) > 60
    /\ df.rows[60].SMA60.def
    /\ ~df.rows[59].SMA60.def
    /\ df.rows[60].RSI.def

\* C6: wherever rsi is defined, 0 <= rsi <= 100, and its denominator
\* gain + loss + epsilon is positive (no division by zero)
C6_RsiRange ==
    Fetched =>
        \A i \in 1..Len(df.rows) :
            LET rsi == df.rows[i].RSI
            IN  rsi.def =>
                    /\ ~RsiLT(rsi, 0)
                    /\ ~RsiGT(rsi, 100)
                    /\ rsi.den >= 0
                    /\ rsi.deneps > 0

\* loss is zero with a positive gain at one row, gain and loss are both
\* positive at another
C6_Witness ==
    /\ Fetched
    /\ \E i \in 1..Len(df.rows) :
          LET rsi == df.rows[i].RSI
          IN  rsi.def /\ rsi.num > 0 /\ rsi.num = 100 * rsi.den
    /\ \E i \in 1..Len(df.rows) :
          LET rsi == df.rows[i].RSI
          IN  rsi.def /\ rsi.num > 0 /\ rsi.num < 100 * rsi.den

RECURSIVE TotalOfLast(_, _)
TotalOfLast(i, k) ==
    IF k = 0 THEN 0 ELSE close[i - k + 1] + TotalOfLast(i, k - 1)

\* C7: SMA20 and Lower are undefined at the indices below 19 and defined from
\* index 19 on, where SMA20 is the mean of the last 20 closes
C7_SmaShort ==
    Fetched =>
        \A i \in 1..Len(df.rows) :
            LET row == df.rows[i]
            IN  IF i - 1 < 19
                THEN ~row.SMA20.def /\ ~row.Lower.def
                ELSE /\ row.SMA20.def
                     /\ row.Lower.def
                     /\ 20 * row.SMA20.num = row.SMA20.den * TotalOfLast(i, 20)

\* a frame of 20 rows or more whose first window holds different closes
C7_Witness ==
    /\ Fetched
    /\ Len(df.rows) >= 20
    /\ close[1] # close[20]
    /\ df.rows[20].SMA20.def
    /\ ~df.rows[19].SMA20.def

MacdDefined(row) == row.MACD.def /\ row.Signal.def /\ row.Hist.def

\* C8 as stated: rsi is undefined below index 13 and defined from index 13
\* on; MACD, Signal and Hist are defined at every index
C8_RsiFrom13 ==
    Fetched =>
        \A i \in 1..Len(df.rows) :
            /\ (i - 1 < 13) => ~df.rows[i].RSI.def
            /\ (i - 1 >= 13) => df.rows[i].RSI.def
            /\ MacdDefined(df.rows[i])

\* C8 amended: rsi is undefined below index 14 and defined from index 14 on
\* (14 prior bars); MACD, Signal and Hist are defined at every index
C8_RsiFrom14 ==
    Fetched =>
        \A i \in 1..Len(df.rows) :
            /\ (i - 1 < 14) => ~df.rows[i].RSI.def
            /\ (i - 1 >= 14) => df.rows[i].RSI.def
            /\ MacdDefined(df.rows[i])

\* the frame reaches index 14: rsi is undefined at 13 and defined at 14
C8_Witness ==
    /\ Fetched
    /\ Len(df.rows) >= 15
    /\ ~df.rows[14].RSI.def
    /\ df.rows[15].RSI.def
    /\ MacdDefined(df.rows[1])

\* C9: a frame of 26 to 59 rows has no SMA60 at its last row and is never
\* labelled "bullish continuation"
C9_NoBullishBelow60 ==
    (Fetched /\ Len(df.rows) >= 26 /\ Len(df.rows) < 60) =>
        /\ ~LastRow.SMA60.def
        /\ label \in {"extreme_panic", "golden_buy", "overheated",
                      "consolidating"}

\* every other condition of the bullish rule holds and no earlier rule does
C9_Witness ==
    /\ Fetched
    /\ Len(df.rows) >= 26
    /\ Len(df.rows) < 60
    /\ LastRow.Close * 20 > LastRow.SMA20.num
    /\ LastRow.Hist.v > 0
    /\ ~RsiGT(LastRow.RSI, 75)
    /\ label = "consolidating"

PlotIsFrame ==
    /\ current_plot.present => ~current_plot.df.isNone
    /\ chart.shown => ~chart.ofNone
    /\ \A s \in MARKET_MAP :
          (cards[s].shown /\ cards[s].failed)
              => cards[s].label = "insufficient_data"

\* C10: current_plot is absent or holds a frame, never None; the chart never
\* classifies None; a card whose fetch failed is labelled "insufficient
\* data"; a click whose fetch failed leaves current_plot as it was
C10_PlotNeverNone ==
    [][/\ PlotIsFrame'
       /\ event'.failed => current_plot' = current_plot]_vars

\* a chart is selected, then the analysis button of a card whose fetch
\* failed is clicked: the chart stays and the card reads insufficient data
C10_Witness ==
    /\ event.kind = "view"
    /\ event.failed
    /\ current_plot.present
    /\ chart.shown
    /\ cards[event.sym].failed
    /\ cards[event.sym].label = "insufficient_data"

====
